---- MODULE Spec2Model ----
(***************************************************************************)
(* Model of app.py, the Big Dipper sales assistant: the per-session state  *)
(* (transcript, product caches, most-recently-used list of codes), the     *)
(* product resolvers that probe the vendor backend, and the turn that      *)
(* handles one chat message.                                               *)
(*                                                                         *)
(* Python values are represented as follows.  A string that the code       *)
(* normalises (a product code) is a sequence of one-character strings, so  *)
(* that strip() and upper() are computed.  None, "" and an absent key all  *)
(* read as falsy through `x.get(k) or ""`; for a code they are the empty   *)
(* sequence.  A JSON scalar found under ProductId / Id is kept as its      *)
(* text: "None", a decimal number, or text that int() rejects.  A dict is  *)
(* a function whose DOMAIN is its key set.  The descriptive fields of a    *)
(* product sheet (descriptions, price, stock, links) are copied through    *)
(* by the code and never steer it; they are left out of the records, but   *)
(* the presence of the DescriptionLong key in a backend item is kept.      *)
(***************************************************************************)
EXTENDS Integers, Sequences, FiniteSets, TLC

VARIABLES
    session_state,  \* st.session_state: messages, products_cache, last_products
    model,          \* get_gemini_model() is not None (an API key is configured)
    pc,             \* position of the running turn: "idle" between turns
    urls,           \* extract_urls(user_text) still to process (their ids)
    models,         \* extract_models(user_text) still to process
    products,       \* the turn's local list `products`
    fetch,          \* the running / last fetch_product_json_by_code call
    turn,           \* what the running / last turn did (observation only)
    remembered      \* normalised codes passed to cache_product so far
                    \* (observation only)

vars ==
    <<session_state, model, pc, urls, models, products, fetch, turn, remembered>>

-----------------------------------------------------------------------------
(* Bounds of the model and constants of the program *)

MaxTurns == 3
MaxSearchTurns == 2

MruCapacity == 5
NumViewEndpoints == 8
NumSearchEndpoints == 4
NumSearchPayloads == 4

NumSearchAttempts == NumSearchEndpoints * NumSearchPayloads

-----------------------------------------------------------------------------
(* Python values *)

NoCode == <<>>
NoPid == "None"
Nothing == [Nothing |-> TRUE]
EmptyDict == [k \in {} |-> TRUE]

Get(d, k, default) == IF k \in DOMAIN d THEN d[k] ELSE default

Put(d, k, v) == (k :> v) @@ d

Truthy(d) == d # Nothing /\ DOMAIN d # {}

IsInt(pid) == pid \in {"1", "2"}

IntOf(pid) == CASE pid = "1" -> 1 [] pid = "2" -> 2

Upper(ch) ==
    CASE ch = "a" -> "A"
      [] ch = "b" -> "B"
      [] ch = "c" -> "C"
      [] ch = "d" -> "D"
      [] OTHER -> ch

RECURSIVE LStrip(_)
LStrip(s) == IF s # <<>> /\ Head(s) = " " THEN LStrip(Tail(s)) ELSE s

RECURSIVE RStrip(_)
RStrip(s) ==
    IF s # <<>> /\ s[Len(s)] = " " THEN RStrip(SubSeq(s, 1, Len(s) - 1)) ELSE s

Strip(s) == RStrip(LStrip(s))

RECURSIVE UpperAll(_)
UpperAll(s) == IF s = <<>> THEN <<>> ELSE <<Upper(Head(s))>> \o UpperAll(Tail(s))

normalize_model(token) == UpperAll(Strip(token))

-----------------------------------------------------------------------------
(* Session state: init_state, cache_product and the lookups *)

init_state ==
    [messages |-> <<>>,
     products_cache |-> [by_code |-> EmptyDict, by_pid |-> EmptyDict],
     last_products |-> <<>>]

compact_product(product) ==
    [ProductId |-> Get(product, "ProductId", NoPid),
     Code |-> IF Get(product, "Code", NoCode) # NoCode
                THEN product.Code
                ELSE Get(product, "code", NoCode)]

Take(s, n) == SubSeq(s, 1, IF Len(s) < n THEN Len(s) ELSE n)

\* A list that is never cut to its capacity
MoveToFront_Uncut(last, code) ==
    <<code>> \o SelectSeq(last, LAMBDA c : c # code)

\* A list from which the code's older entry is not removed
MoveToFront_Repeat(last, code) == Take(<<code>> \o last, MruCapacity)

MoveToFront(last, code) ==
    Take(<<code>> \o SelectSeq(last, LAMBDA c : c # code), MruCapacity)

\* cache_product(prod) on session state ss.  The result is the session state
\* it leaves and whether int(pid) raised; the writes made before the raise stay.
cache_product(ss, prod) ==
    LET p == compact_product(prod)
        code == normalize_model(p.Code)
        pid == p.ProductId
        c1 == IF code # NoCode
                THEN [ss.products_cache EXCEPT !.by_code = Put(@, code, p)]
                ELSE ss.products_cache
    IN  IF pid # NoPid /\ ~IsInt(pid)
          THEN [ss |-> [ss EXCEPT !.products_cache = c1], raised |-> TRUE]
          ELSE
            LET c2 == IF pid # NoPid
                        THEN [c1 EXCEPT !.by_pid = Put(@, IntOf(pid), p)]
                        ELSE c1
                lp == IF code # NoCode
                        THEN MoveToFront(ss.last_products, code)
                        ELSE ss.last_products
            IN  [ss |-> [ss EXCEPT !.products_cache = c2, !.last_products = lp],
                 raised |-> FALSE]

get_cached_by_code(ss, code) ==
    Get(ss.products_cache.by_code, normalize_model(code), Nothing)

get_cached_by_pid(ss, pid) == Get(ss.products_cache.by_pid, pid, Nothing)

RECURSIVE CachedOf(_, _)
CachedOf(ss, codes) ==
    IF codes = <<>> THEN <<>>
    ELSE (IF Truthy(get_cached_by_code(ss, Head(codes)))
            THEN <<get_cached_by_code(ss, Head(codes))>>
            ELSE <<>>) \o CachedOf(ss, Tail(codes))

get_last_products(ss) == CachedOf(ss, ss.last_products)

-----------------------------------------------------------------------------
(* The resolvers: what one backend response makes them do *)

\* fetch_product_json_by_product_id, one endpoint of the list: the response
\* is returned when it is a 200 whose body parses to a dict carrying one of
\* the expected keys; anything else moves on to the next endpoint.
view_response(resp) ==
    IF /\ resp.kind = "json"
       /\ DOMAIN resp.body \cap {"Code", "ProductId", "DescriptionLong"} # {}
      THEN [act |-> "return", data |-> resp.body]
      ELSE [act |-> "next"]

\* fetch_product_json_by_product_id, the page scrape after the endpoints:
\* whatever object parses out of the page is returned, unvalidated.
page_response(resp) ==
    IF resp.kind = "json" THEN resp.body ELSE Nothing

RECURSIVE view_from(_, _)
view_from(script, ep) ==
    IF ep > NumViewEndpoints THEN page_response(script[ep])
    ELSE LET r == view_response(script[ep]) IN
         IF r.act = "return" THEN r.data ELSE view_from(script, ep + 1)

\* The backend answers the k-th request of the call with script[k]; the id
\* travels in the payload and in the page URL.
fetch_product_json_by_product_id(product_id, script) == view_from(script, 1)

ItemMatches(item, code) ==
    normalize_model(Get(item, "Code", NoCode)) = normalize_model(code)

ItemPid(item) ==
    IF Get(item, "ProductId", NoPid) # NoPid
      THEN item.ProductId
      ELSE Get(item, "Id", NoPid)

\* The id of a matching item: handed to fetch_product_json_by_product_id,
\* unless int(pid) raises, which the attempt's except turns into `continue`.
hand_off(pid) ==
    IF IsInt(pid) THEN [act |-> "view", pid |-> IntOf(pid)] ELSE [act |-> "next"]

RECURSIVE scan_list(_, _)
scan_list(items, code) ==
    IF items = <<>> THEN [act |-> "next"]
    ELSE LET item == Head(items) IN
         IF ItemMatches(item, code)
           THEN IF "DescriptionLong" \in DOMAIN item
                  THEN [act |-> "return", data |-> item]
                  ELSE IF ItemPid(item) # NoPid
                         THEN hand_off(ItemPid(item))
                         ELSE scan_list(Tail(items), code)
           ELSE scan_list(Tail(items), code)

RECURSIVE scan_results(_, _)
scan_results(items, code) ==
    IF items = <<>> THEN [act |-> "next"]
    ELSE LET item == Head(items) IN
         IF ItemMatches(item, code) /\ ItemPid(item) # NoPid
           THEN hand_off(ItemPid(item))
           ELSE scan_results(Tail(items), code)

\* fetch_product_json_by_code, one (endpoint, payload) attempt
search_response(resp, code) ==
    IF resp.kind # "json" THEN [act |-> "next"]
    ELSE CASE resp.shape = "list" -> scan_list(resp.items, code)
           [] resp.shape = "dict" -> scan_results(resp.items, code)
           [] OTHER -> [act |-> "next"]

\* The payload index is not reset when the endpoint advances
next_attempt_NoReset(at) ==
    IF at[2] < NumSearchPayloads THEN <<at[1], at[2] + 1>> ELSE <<at[1] + 1, at[2]>>

\* The attempt after (ep, pl): payloads vary fastest
next_attempt(at) ==
    IF at[2] < NumSearchPayloads THEN <<at[1], at[2] + 1>> ELSE <<at[1] + 1, 1>>

\* The two nested loops of fetch_product_json_by_code from attempt `at` on,
\* the backend answering the k-th request with script[k]: how the loops end
\* ("return" an item, "view" an id, "none" left) and the attempts made.
RECURSIVE search_from(_, _, _, _)
search_from(code, script, at, log) ==
    IF at[1] > NumSearchEndpoints THEN [act |-> "none", log |-> log]
    ELSE LET r == search_response(script[Len(log) + 1], code) IN
         IF r.act = "next"
           THEN search_from(code, script, next_attempt(at), Append(log, at))
           ELSE r @@ [log |-> Append(log, at)]

-----------------------------------------------------------------------------
(* The end of a turn: memory fallback, dedup, answer *)

RECURSIVE dedup_from(_, _)
dedup_from(ps, seen) ==
    IF ps = <<>> THEN <<>>
    ELSE LET c == normalize_model(Head(ps).Code) IN
         IF c # NoCode /\ c \notin seen
           THEN <<Head(ps)>> \o dedup_from(Tail(ps), seen \cup {c})
           ELSE dedup_from(Tail(ps), seen)

dedup(ps) == dedup_from(ps, {})

\* Only the most recent product is recalled
with_memory_First(ps, last) ==
    IF ps = <<>> /\ last # <<>> THEN <<Head(last)>> ELSE ps

\* `if not products: last = get_last_products(); if last: products = last`
with_memory(ps, last) == IF ps = <<>> /\ last # <<>> THEN last ELSE ps

\* The clarification branch is never taken
no_products_Never(ps) == FALSE

\* `if not products:` after the dedup: the clarification branch
no_products(ps) == ps = <<>>

PassedCode(prod) == normalize_model(compact_product(prod).Code)

\* `for p in products: cache_product(p)`, stopped by the first raise;
\* `passed` collects the codes of the records handed to cache_product
RECURSIVE cache_all(_, _, _)
cache_all(ss, ps, passed) ==
    IF ps = <<>> THEN [ss |-> ss, raised |-> FALSE, passed |-> passed]
    ELSE LET r == cache_product(ss, Head(ps))
             seen == passed \cup {PassedCode(Head(ps))}
         IN  IF r.raised
               THEN [ss |-> r.ss, raised |-> TRUE, passed |-> seen]
               ELSE cache_all(r.ss, Tail(ps), seen)

\* ask_gemini: the text it returns for each outcome of generate_content
ask_gemini(gen) ==
    CASE gen = "text" -> "generated"
      [] gen = "empty" -> "No pude generar una respuesta"
      [] gen = "raise" -> "Error al consultar Gemini"

\* `if model: answer = ask_gemini(...) else: answer = <sheet of products[0]>`
answer_for(hasModel, gen) == IF hasModel THEN ask_gemini(gen) ELSE "sheet"

say(ss, role, content) ==
    [ss EXCEPT !.messages = Append(@, [role |-> role, content |-> content])]

-----------------------------------------------------------------------------
(* What the user types and what the backend and the generation service may *)
(* answer: the inputs of the steps.                                        *)

A1 == <<"A", "1">>
a1 == <<" ", "a", "1">>    \* the code A1 as a backend may spell it
B2 == <<"B", "2">>

\* extract_urls gives the ids of the product URLs of the message in order;
\* extract_models gives normalised, distinct codes.
Messages ==
    [urls : {<<>>, <<1>>}, models : {<<>>, <<A1>>, <<B2>>}]
    \cup {[urls |-> <<>>, models |-> <<A1, B2>>],
          [urls |-> <<1, 1>>, models |-> <<>>]}

SearchMessages == {[urls |-> <<>>, models |-> m] : m \in {<<A1>>, <<B2>>}}

FailureKinds == {"exception", "status", "notjson", "malformed"}

\* JSON objects a view endpoint or the product page may yield
ViewBodies ==
    {[Code |-> a1, ProductId |-> "1"],
     [Code |-> B2],
     [code |-> B2, ProductId |-> "1"],
     [ProductId |-> "1"],
     [Code |-> a1, ProductId |-> "abc"],
     [DescriptionLong |-> TRUE],
     EmptyDict}

\* Backends for one fetch_product_json_by_product_id call: the requests
\* before the n-th fail in one way, the n-th and later ones yield an object;
\* or every request fails.
ViewScripts ==
    {[k \in 1..(NumViewEndpoints + 1) |->
        IF k < n THEN [kind |-> f] ELSE [kind |-> "json", body |-> b]] :
        n \in {1, NumViewEndpoints + 1}, f \in {"exception", "status"},
        b \in ViewBodies}
    \cup {[k \in 1..(NumViewEndpoints + 1) |-> [kind |-> f]] : f \in FailureKinds}

\* Items of a search result
SearchItems ==
    {[Code |-> a1, DescriptionLong |-> TRUE, ProductId |-> "1"],
     [Code |-> a1, DescriptionLong |-> TRUE, ProductId |-> "abc"],
     [Code |-> a1, ProductId |-> "1"],
     [Code |-> a1, Id |-> "1"],
     [Code |-> a1, ProductId |-> "abc"],
     [Code |-> a1],
     [Code |-> B2, DescriptionLong |-> TRUE],
     [Code |-> B2, ProductId |-> "2"],
     [ProductId |-> "1"]}

DudItems == {[Code |-> a1], [ProductId |-> "1"]}

ItemLists ==
    {<<>>} \cup {<<i>> : i \in SearchItems}
    \cup {<<d, i>> : d \in DudItems, i \in SearchItems}

SearchResponses ==
    {[kind |-> k] : k \in FailureKinds}
    \cup {[kind |-> "json", shape |-> "other"]}
    \cup {[kind |-> "json", shape |-> s, items |-> l] :
            s \in {"list", "dict"}, l \in ItemLists}

\* Backends for one fetch_product_json_by_code call, as for ViewScripts
SearchScripts ==
    {[k \in 1..NumSearchAttempts |->
        IF k < n THEN [kind |-> "exception"]
        ELSE [kind |-> "json", shape |-> s, items |-> <<i>>]] :
        n \in {1, NumSearchAttempts}, s \in {"list", "dict"}, i \in SearchItems}
    \cup {[k \in 1..NumSearchAttempts |-> [kind |-> f]] : f \in FailureKinds}

GenOutcomes == {"text", "empty", "raise"}

\* Records handed to cache_product when the memory is exercised alone
MemProducts ==
    {[Code |-> a1, ProductId |-> "1"],
     [Code |-> a1, ProductId |-> "abc"],
     [Code |-> B2],
     [code |-> <<"c", "3">>],
     [Code |-> <<"D", "4">>],
     [Code |-> <<"d", "5", " ">>],
     [Code |-> <<"D", "6">>],
     [Code |-> <<"E", "7">>],
     [ProductId |-> "1"],
     EmptyDict}

-----------------------------------------------------------------------------
(* The turn: `if user_text:` to the end of the script.  One step loads one *)
(* element of a loop (a URL, a model code); the last step is everything    *)
(* after the loops.                                                        *)

NoFetch == [kind |-> "none"]

NoTurn ==
    [n |-> 0,              \* turns started
     named |-> FALSE,      \* the message holds a product URL or a model code
     requested |-> FALSE,  \* a backend request was issued in this turn
     last0 |-> <<>>,       \* get_last_products() when the turn started
     missed |-> FALSE,     \* `products` was empty after both loops
     fallback |-> FALSE,   \* `products = last` was executed
     effective |-> <<>>,   \* `products` after the dedup
     generated |-> FALSE,  \* an answer was generated (either strategy)
     gen |-> <<>>,         \* the products the answer was generated from
     failure |-> FALSE,    \* generate_content raised or returned no text
     outcome |-> "none",   \* "running", "replied", or "raised"
     resolved |-> Nothing] \* the last resolution by code: query and result

\* Where the script goes on after an element of a loop is done
resume(us, ms) ==
    IF us # <<>> THEN "urls" ELSE IF ms # <<>> THEN "models" ELSE "respond"

Init ==
    /\ session_state = init_state
    /\ model \in BOOLEAN
    /\ pc = "idle"
    /\ urls = <<>>
    /\ models = <<>>
    /\ products = <<>>
    /\ fetch = NoFetch
    /\ turn = NoTurn
    /\ remembered = {}

\* An exception leaves the script: the rerun ends, the session state stays
Raise(ss, obs) ==
    /\ session_state' = ss
    /\ pc' = "idle"
    /\ urls' = <<>>
    /\ models' = <<>>
    /\ products' = <<>>
    /\ turn' = [obs EXCEPT !.outcome = "raised"]

\* `if data: cache_product(data); products.append(compact_product(data))`
\* for the element at the head of the running loop, then the next element
Deliver(data, obs) ==
    LET viaCode == pc # "urls"
        us == IF viaCode THEN urls ELSE Tail(urls)
        ms == IF viaCode THEN Tail(models) ELSE models
        seen == IF viaCode
                  THEN [obs EXCEPT !.resolved =
                            [query |-> Head(models), data |-> data]]
                  ELSE obs
        r == cache_product(session_state, data)
    IN  IF ~Truthy(data)
          THEN /\ urls' = us
               /\ models' = ms
               /\ pc' = resume(us, ms)
               /\ turn' = seen
               /\ UNCHANGED <<session_state, products, remembered>>
          ELSE /\ remembered' = remembered \cup {PassedCode(data)}
               /\ IF r.raised
                    THEN Raise(r.ss, seen)
                    ELSE /\ session_state' = r.ss
                         /\ products' = Append(products, compact_product(data))
                         /\ urls' = us
                         /\ models' = ms
                         /\ pc' = resume(us, ms)
                         /\ turn' = seen

Submit(msg, max) ==
    /\ pc = "idle"
    /\ turn.n < max
    /\ session_state' = say(session_state, "user", "user_text")
    /\ urls' = msg.urls
    /\ models' = msg.models
    /\ products' = <<>>
    /\ fetch' = NoFetch
    /\ pc' = resume(msg.urls, msg.models)
    /\ turn' = [NoTurn EXCEPT
                  !.n = turn.n + 1,
                  !.named = msg.urls # <<>> \/ msg.models # <<>>,
                  !.last0 = get_last_products(session_state),
                  !.outcome = "running"]
    /\ UNCHANGED <<model, remembered>>

\* One pass of `for url, pid in urls:`
LoadUrl(script) ==
    /\ pc = "urls"
    /\ LET pid == Head(urls)
           cached == get_cached_by_pid(session_state, pid)
       IN  IF Truthy(cached)
             THEN /\ products' = Append(products, cached)
                  /\ urls' = Tail(urls)
                  /\ pc' = resume(Tail(urls), models)
                  /\ UNCHANGED <<session_state, models, turn, remembered>>
             ELSE Deliver(fetch_product_json_by_product_id(pid, script),
                          [turn EXCEPT !.requested = TRUE])
    /\ UNCHANGED <<model, fetch>>

\* `cached = get_cached_by_code(code); if cached: ...; continue`
Cached(code, cached) ==
    /\ products' = Append(products, cached)
    /\ models' = Tail(models)
    /\ pc' = resume(urls, Tail(models))
    /\ turn' = [turn EXCEPT !.resolved = [query |-> code, data |-> cached]]
    /\ UNCHANGED <<session_state, urls, remembered>>

\* One pass of `for code in models:`
LoadModel(script) ==
    /\ pc = "models"
    /\ LET code == Head(models)
           cached == get_cached_by_code(session_state, code)
           r == search_from(code, script, <<1, 1>>, <<>>)
           obs == [turn EXCEPT !.requested = TRUE]
       IN  IF Truthy(cached) THEN Cached(code, cached)
           ELSE IF r.act = "view"
             THEN \E v \in ViewScripts :
                    Deliver(fetch_product_json_by_product_id(r.pid, v), obs)
             ELSE Deliver(IF r.act = "return" THEN r.data ELSE Nothing, obs)
    /\ UNCHANGED <<model, fetch>>

\* Everything after the loops: memory fallback, dedup, then either the
\* clarification or re-caching and the answer
Respond(gen) ==
    /\ pc = "respond"
    /\ LET last == get_last_products(session_state)
           chosen == with_memory(products, last)
           prods == dedup(chosen)
           r == cache_all(session_state, prods, {})
           obs == [turn EXCEPT
                     !.missed = products = <<>>,
                     !.fallback = chosen # products,
                     !.effective = prods,
                     !.resolved = Nothing]
       IN  IF no_products(prods)
             THEN /\ session_state' = say(session_state, "assistant", "clarification")
                  /\ turn' = [obs EXCEPT !.outcome = "replied"]
                  /\ UNCHANGED remembered
             ELSE /\ remembered' = remembered \cup r.passed
                  /\ IF r.raised
                       THEN /\ session_state' = r.ss
                            /\ turn' = [obs EXCEPT !.outcome = "raised"]
                       ELSE /\ session_state' =
                                 say(r.ss, "assistant", answer_for(model, gen))
                            /\ turn' = [obs EXCEPT
                                          !.outcome = "replied",
                                          !.generated = TRUE,
                                          !.gen = prods,
                                          !.failure = model /\ gen # "text"]
    /\ pc' = "idle"
    /\ urls' = <<>>
    /\ models' = <<>>
    /\ products' = <<>>
    /\ fetch' = NoFetch
    /\ UNCHANGED model

Next ==
    \/ \E msg \in Messages : Submit(msg, MaxTurns)
    \/ \E script \in ViewScripts : LoadUrl(script)
    \/ \E script \in SearchScripts : LoadModel(script)
    \/ \E gen \in GenOutcomes : Respond(gen)

Spec == Init /\ [][Next]_vars

-----------------------------------------------------------------------------
(* fetch_product_json_by_code with one step per search request, inside a   *)
(* turn whose message names model codes                                    *)

\* The fixed list of search attempts, in the order of the two nested loops
Attempts ==
    [k \in 1..NumSearchAttempts |->
        <<((k - 1) \div NumSearchPayloads) + 1, ((k - 1) % NumSearchPayloads) + 1>>]

\* How a search response reads, whatever the resolver does with it:
\* "failed" (error, non-200, non-JSON, no item with the queried code),
\* "yielded" (the first item with the code is a full sheet in a list, or
\* carries an id that converts), "unusable" otherwise.
RECURSIVE FirstMatch(_, _)
FirstMatch(items, code) ==
    IF items = <<>> THEN Nothing
    ELSE IF ItemMatches(Head(items), code) THEN Head(items)
    ELSE FirstMatch(Tail(items), code)

Reading(resp, code) ==
    IF resp.kind # "json" \/ resp.shape = "other" THEN "failed"
    ELSE LET it == FirstMatch(resp.items, code) IN
         IF it = Nothing THEN "failed"
         ELSE IF \/ resp.shape = "list" /\ "DescriptionLong" \in DOMAIN it
                 \/ IsInt(ItemPid(it))
                THEN "yielded"
                ELSE "unusable"

\* The top of one pass of `for code in models:`, up to the call
LookupModel ==
    /\ pc = "models"
    /\ LET code == Head(models)
           cached == get_cached_by_code(session_state, code)
       IN  IF Truthy(cached)
             THEN Cached(code, cached) /\ UNCHANGED fetch
             ELSE /\ fetch' = [kind |-> "search", code |-> code, at |-> <<1, 1>>,
                               log |-> <<>>, prev |-> "none", open |-> TRUE]
                  /\ pc' = "search"
                  /\ UNCHANGED <<session_state, urls, models, products, turn,
                                 remembered>>
    /\ UNCHANGED model

\* One `session.post(ep, json=pl)` of the call and what follows from its
\* response, up to the next request or to the end of the pass
SearchAttempt(resp) ==
    /\ pc = "search"
    /\ LET r == search_response(resp, fetch.code)
           nxt == next_attempt(fetch.at)
           more == r.act = "next" /\ nxt[1] <= NumSearchEndpoints
           obs == [turn EXCEPT !.requested = TRUE]
       IN  /\ fetch' = [fetch EXCEPT
                          !.at = IF more THEN nxt ELSE @,
                          !.log = Append(@, fetch.at),
                          !.prev = Reading(resp, fetch.code),
                          !.open = more]
           /\ IF more
                THEN /\ turn' = obs
                     /\ UNCHANGED <<session_state, pc, urls, models, products,
                                    remembered>>
                ELSE IF r.act = "view"
                  THEN \E v \in ViewScripts :
                         Deliver(fetch_product_json_by_product_id(r.pid, v), obs)
                  ELSE Deliver(IF r.act = "return" THEN r.data ELSE Nothing, obs)
    /\ UNCHANGED model

NextSearch ==
    \/ \E msg \in SearchMessages : Submit(msg, MaxSearchTurns)
    \/ LookupModel
    \/ \E resp \in SearchResponses : SearchAttempt(resp)
    \/ \E gen \in GenOutcomes : Respond(gen)

SearchSpec == Init /\ [][NextSearch]_vars

-----------------------------------------------------------------------------
(* The session memory alone: cache_product called with arbitrary records *)

Remember(prod) ==
    /\ session_state' = cache_product(session_state, prod).ss
    /\ remembered' = remembered \cup {PassedCode(prod)}
    /\ UNCHANGED <<model, pc, urls, models, products, fetch, turn>>

NextMemory == \E prod \in MemProducts : Remember(prod)

MemorySpec == Init /\ [][NextMemory]_vars

-----------------------------------------------------------------------------
(* Properties *)

LastMessage == session_state.messages[Len(session_state.messages)]

IsPrefix(s, t) == Len(s) <= Len(t) /\ \A i \in 1..Len(s) : s[i] = t[i]

Range(s) == {s[i] : i \in 1..Len(s)}

MemCodes ==
    {compact_product(p).Code : p \in MemProducts}
    \cup {PassedCode(p) : p \in MemProducts}

\* C1: however cache_product has been called, last_products holds at most
\* MruCapacity codes, and a code none of whose records was handed to
\* cache_product is not found by get_cached_by_code.
C1_MemoryBounded ==
    /\ Len(session_state.last_products) <= MruCapacity
    /\ \A c \in MemCodes :
         normalize_model(c) \notin remembered
            => get_cached_by_code(session_state, c) = Nothing

\* The list is full, a remembered code has been evicted from it, and some
\* code is still unknown.
C1_Witness ==
    /\ Len(session_state.last_products) = MruCapacity
    /\ \E c \in remembered \ {NoCode} : c \notin Range(session_state.last_products)
    /\ \E c \in MemCodes : c # NoCode /\ normalize_model(c) \notin remembered

\* C2: when a turn resolves nothing from its message and the memory held
\* products when the turn started, the answer is generated from exactly
\* those products, in that order; and a message with no URL and no model
\* code issues no backend request.
C2_MemoryFallback ==
    /\ (turn.outcome = "replied" /\ turn.missed /\ turn.last0 # <<>>)
          => (turn.generated /\ turn.gen = turn.last0)
    /\ ~turn.named => ~turn.requested

\* A bare follow-up answered from a memory of two products
C2_Witness ==
    /\ turn.outcome = "replied"
    /\ ~turn.named
    /\ turn.fallback
    /\ turn.generated
    /\ Len(turn.last0) = 2

\* C3: an answer is generated only from a non-empty product set; a turn
\* whose product set is empty after resolution, fallback and dedup replies
\* with the clarification message and generates nothing.
C3_GroundedAnswer ==
    /\ turn.generated => (turn.gen # <<>> /\ turn.gen = turn.effective)
    /\ turn.outcome = "replied" =>
         /\ LastMessage.role = "assistant"
         /\ turn.effective = <<>> <=> LastMessage.content = "clarification"
         /\ turn.effective = <<>> <=> ~turn.generated

\* A record was resolved from the message, the dedup dropped it for want of
\* a code, and the turn asked for a model or URL.
C3_Witness ==
    /\ turn.outcome = "replied"
    /\ turn.named
    /\ ~turn.missed
    /\ turn.effective = <<>>
    /\ LastMessage.content = "clarification"

\* C4: a resolution by code yields nothing or a record whose normalised
\* Code is the normalised queried code.
C4_ResolvedCodeMatches ==
    (turn.resolved # Nothing /\ Truthy(turn.resolved.data))
        => PassedCode(turn.resolved.data) = normalize_model(turn.resolved.query)

\* C5: when generate_content raises or returns no text, the reply is the
\* rule-based answer built from the product sheet.
C5_FailureFallsBack ==
    (turn.generated /\ turn.failure) => LastMessage.content = "sheet"

\* C6: when the message names a product and nothing is resolved from it,
\* the reply is the clarification message.
C6_MissAsksAgain ==
    (turn.outcome = "replied" /\ turn.named /\ turn.missed)
        => LastMessage.content = "clarification"

\* What holds of a fetch_product_json_by_code call at every request
SearchState ==
    fetch.kind = "search" =>
        /\ IsPrefix(fetch.log, Attempts)
        /\ \A i, j \in 1..Len(fetch.log) : fetch.log[i] = fetch.log[j] => i = j
        /\ fetch.open => fetch.at = Attempts[Len(fetch.log) + 1]
        /\ fetch.open => fetch.prev # "yielded"
        /\ (~fetch.open /\ fetch.prev = "failed")
              => Len(fetch.log) = NumSearchAttempts

\* A request whose response reads as failed leaves the session state alone
SearchStep ==
    (pc = "search" /\ fetch'.prev = "failed") => session_state' = session_state

\* C7: the search requests of one fetch_product_json_by_code call are a
\* prefix of the fixed list of attempts, none made twice; a failed attempt
\* is followed by the next attempt of the list, if any, and changes no
\* session state; no attempt follows one whose response yielded the record.
C7_SearchOrder == []SearchState /\ [][SearchStep]_vars

\* The call ended at its sixth request, in the second endpoint, on a
\* response that yielded the record.
C7_Witness ==
    /\ fetch.kind = "search"
    /\ ~fetch.open
    /\ fetch.prev = "yielded"
    /\ fetch.log = SubSeq(Attempts, 1, NumSearchPayloads + 2)

\* C8: every turn ends with exactly one assistant message appended right
\* after its user message.
C8_TurnAlwaysReplies ==
    pc = "idle" =>
        /\ Len(session_state.messages) = 2 * turn.n
        /\ \A i \in 1..Len(session_state.messages) :
             session_state.messages[i].role =
                IF i % 2 = 1 THEN "user" ELSE "assistant"

\* C9: a turn answered from the memory leaves the memory as it found it:
\* the same products in the same order.
C9_FallbackKeepsOrder ==
    (turn.outcome = "replied" /\ turn.fallback)
        => get_last_products(session_state) = turn.last0

\* C10: last_products holds no code twice and no empty code, each of its
\* codes is a key of by_code whose record normalises to that key, and
\* get_last_products returns exactly those records in that order.
C10_MruConsistent ==
    LET lp == session_state.last_products
        by_code == session_state.products_cache.by_code
    IN  /\ \A i \in 1..Len(lp) :
             /\ lp[i] # NoCode
             /\ lp[i] \in DOMAIN by_code
             /\ normalize_model(by_code[lp[i]].Code) = lp[i]
             /\ \A j \in 1..Len(lp) : lp[j] = lp[i] => j = i
        /\ Len(get_last_products(session_state)) = Len(lp)
        /\ \A i \in 1..Len(lp) :
             get_last_products(session_state)[i] = by_code[lp[i]]

\* A full list one of whose codes was re-cached, moving it to the front,
\* and whose record was then overwritten by a call that raised.
C10_Witness ==
    LET lp == session_state.last_products
        by_code == session_state.products_cache.by_code
    IN  /\ Len(lp) = MruCapacity
        /\ \E i \in 2..Len(lp) : by_code[lp[i]].ProductId = "abc"

====
